---------------------------- MODULE Spec2Model ----------------------------
(***************************************************************************)
(* ADCS simulation core: the configuration store (Configuration            *)
(* singleton), the device factory (SensorActuatorFactory), the actuator    *)
(* integration step and the simulation clock / scheduler.                  *)
(*                                                                         *)
(* Units: times are integer milliseconds.  Angular positions are in units  *)
(* of 10^6 (the factory's position sentinels do not fit 32-bit integers).  *)
(***************************************************************************)
EXTENDS Integers, FiniteSets, Sequences, TLC

VARIABLES
    sensorConfigs,    \* Configuration::sensorConfigs   (name -> config or NULL)
    actuatorConfigs,  \* Configuration::actuatorConfigs (name -> config or NULL)
    settings,         \* Configuration's scalar members (timestep, timeout, ...)
    call,             \* the last factory call and what it returned
    wheel,            \* a Reaction_wheel driven directly: device and ActuatorState
    lastStep,         \* what the wheel's last integrate call did
    schedState,       \* scheduler: Idle, Running, TimedOut, Stopped
    currentTime,      \* ClockState.currentTime
    runStartTime,     \* time at which the run entered Running
    devices,          \* scheduler: name -> device, lastPollTime, state
    polls,            \* name -> set of times at which the device was polled
    lastTick          \* the clock's last tick: whether one happened, and from when

vars == <<sensorConfigs, actuatorConfigs, settings, call, wheel, lastStep,
          schedState, currentTime, runStartTime, devices, polls, lastTick>>

factoryVars == <<call>>
wheelVars == <<wheel, lastStep>>
schedVars == <<schedState, currentTime, runStartTime, devices, polls, lastTick>>

\* An empty std::shared_ptr.
NULL == [null |-> TRUE]

\* No factory call made yet.
NoCall == [op |-> "none", outcome |-> "returned"]

-----------------------------------------------------------------------------
(* Configuration records                                                   *)

\* enum SensorType; "UnknownSensor" stands for an enumerator that
\* GetSensor's switch has no case for.
SensorType == {"Accelerometer", "Gyroscope", "UnknownSensor"}

\* enum ActuatorType; "UnknownActuator" stands for an enumerator that
\* GetActuator's switch has no case for.
ActuatorType == {"ReactionWheel", "UnknownActuator"}

SensorNames == {"Gyro1", "Accel1"}
ActuatorNames == {"ReactionWheel1"}

PollingTimes == {1, 10}
Positions == {<<0, 0, 0>>, <<1, 0, 0>>}

\* struct SensorConfig (and GyroConfig / AccelerometerConfig, which only fix
\* the type tag).
SensorConfig(t, pollingTime, position) ==
    [type |-> t, pollingTime |-> pollingTime, position |-> position]

\* struct ReactionWheelConfig : ActuatorConfig.
ReactionWheelConfig(t, moment, maxV, maxA, minV, minA, pollingTime, position) ==
    [type |-> t, momentOfInertia |-> moment,
     maxAngVel |-> maxV, maxAngAccel |-> maxA,
     minAngVel |-> minV, minAngAccel |-> minA,
     pollingTime |-> pollingTime, position |-> position,
     axisOfRotation |-> <<0, 0, 1>>, velocity |-> 0, acceleration |-> 1]

\* timestamp(x): a time of x milliseconds.
timestamp(x) == [ms |-> x]

-----------------------------------------------------------------------------
(* Configuration accessors                                                 *)

\* std::unordered_map::operator[] : a missing key is inserted with a
\* value-initialised (empty) shared_ptr.
MapIndex(m, name) ==
    IF name \in DOMAIN m
    THEN m
    ELSE [k \in DOMAIN m \cup {name} |-> IF k = name THEN NULL ELSE m[k]]

\* Configuration::GetSensorConfig: returns sensorConfigs[name]; the map after
\* the access and the referenced shared_ptr.
GetSensorConfig(configs, name) ==
    [configs |-> MapIndex(configs, name), ref |-> MapIndex(configs, name)[name]]

\* Configuration::GetActuatorConfig: returns actuatorConfigs[name].
GetActuatorConfig(configs, name) ==
    [configs |-> MapIndex(configs, name), ref |-> MapIndex(configs, name)[name]]

\* Configuration::GetSensorConfigs / GetActuatorConfigs: the maps themselves.
GetSensorConfigs == sensorConfigs
GetActuatorConfigs == actuatorConfigs

-----------------------------------------------------------------------------
(* Devices                                                                 *)

\* Position sentinels of GetActuator, in units of 10^6.
MinPositionSentinel == -100000000
MaxPositionSentinel == 10000
\* max.time of GetActuator, in milliseconds.
MaxTimeHorizon == 10000000

\* struct actuator_state.
actuator_state(acceleration, velocity, position, time) ==
    [acceleration |-> acceleration, velocity |-> velocity,
     position |-> position, time |-> time]

\* Accelerometer(pollingTime, position)
Accelerometer(pollingTime, position) ==
    [kind |-> "Accelerometer", pollingTime |-> pollingTime, position |-> position]

\* Gyroscope(pollingTime, position)
Gyroscope(pollingTime, position) ==
    [kind |-> "Gyroscope", pollingTime |-> pollingTime, position |-> position]

\* Reaction_wheel(pollingTime, position, min, max, momentOfInertia)
Reaction_wheel(pollingTime, position, min, max, moment) ==
    [kind |-> "Reaction_wheel", pollingTime |-> pollingTime, position |-> position,
     min |-> min, max |-> max, momentOfInertia |-> moment]

-----------------------------------------------------------------------------
(* SensorActuatorFactory                                                   *)

\* Result of a factory call: the store after the call, the returned
\* shared_ptr and how the call ended ("returned" or "fatal").
FactoryResult(configs, ret, outcome) ==
    [configs |-> configs, ret |-> ret, outcome |-> outcome]

\* Mutant: GetSensor without the null check dereferences the empty pointer.
GetSensor_NoNullCheck(configs, name) ==
    LET got == GetSensorConfig(configs, name)
        sensor == got.ref
    IN  IF sensor = NULL
        THEN FactoryResult(got.configs, NULL, "fatal")
        ELSE CASE sensor.type = "Accelerometer" ->
                    FactoryResult(got.configs,
                        Accelerometer(timestamp(sensor.pollingTime), sensor.position),
                        "returned")
               [] sensor.type = "Gyroscope" ->
                    FactoryResult(got.configs,
                        Gyroscope(timestamp(sensor.pollingTime), sensor.position),
                        "returned")
               [] OTHER -> FactoryResult(got.configs, NULL, "returned")

\* Mutant: the polling time is converted from milliseconds to seconds before
\* it is handed to the sensor.
GetSensor_PollingInSeconds(configs, name) ==
    LET got == GetSensorConfig(configs, name)
        sensor == got.ref
    IN  IF sensor = NULL
        THEN FactoryResult(got.configs, NULL, "returned")
        ELSE CASE sensor.type = "Accelerometer" ->
                    FactoryResult(got.configs,
                        Accelerometer(timestamp(sensor.pollingTime \div 1000),
                                      sensor.position),
                        "returned")
               [] sensor.type = "Gyroscope" ->
                    FactoryResult(got.configs,
                        Gyroscope(timestamp(sensor.pollingTime \div 1000),
                                  sensor.position),
                        "returned")
               [] OTHER -> FactoryResult(got.configs, NULL, "returned")

\* SensorActuatorFactory::GetSensor
GetSensor(configs, name) ==
    LET got == GetSensorConfig(configs, name)
        sensor == got.ref
    IN  IF sensor = NULL
        THEN FactoryResult(got.configs, NULL, "returned")
        ELSE CASE sensor.type = "Accelerometer" ->
                    FactoryResult(got.configs,
                        Accelerometer(timestamp(sensor.pollingTime), sensor.position),
                        "returned")
               [] sensor.type = "Gyroscope" ->
                    FactoryResult(got.configs,
                        Gyroscope(timestamp(sensor.pollingTime), sensor.position),
                        "returned")
               \* no case matches: the switch falls through, ret stays empty
               [] OTHER -> FactoryResult(got.configs, NULL, "returned")

\* Mutant: the min bounds take the velocity bound for the acceleration and
\* the acceleration bound for the velocity.
GetActuator_SwappedMin(configs, name) ==
    LET got == GetActuatorConfig(configs, name)
        actu == got.ref
    IN  IF actu = NULL
        THEN FactoryResult(got.configs, NULL, "returned")
        ELSE CASE actu.type = "ReactionWheel" ->
                    LET min == actuator_state(actu.minAngVel, actu.minAngAccel,
                                              MinPositionSentinel, timestamp(0))
                        max == actuator_state(actu.maxAngAccel, actu.maxAngVel,
                                              MaxPositionSentinel, timestamp(MaxTimeHorizon))
                    IN  FactoryResult(got.configs,
                            Reaction_wheel(timestamp(actu.pollingTime), actu.position,
                                           min, max, actu.momentOfInertia),
                            "returned")
               [] OTHER -> FactoryResult(got.configs, NULL, "returned")

\* Mutant: the time bounds are swapped, min.time takes the time horizon.
GetActuator_SwappedTimes(configs, name) ==
    LET got == GetActuatorConfig(configs, name)
        actu == got.ref
    IN  IF actu = NULL
        THEN FactoryResult(got.configs, NULL, "returned")
        ELSE CASE actu.type = "ReactionWheel" ->
                    LET min == actuator_state(actu.minAngAccel, actu.minAngVel,
                                              MinPositionSentinel, timestamp(MaxTimeHorizon))
                        max == actuator_state(actu.maxAngAccel, actu.maxAngVel,
                                              MaxPositionSentinel, timestamp(0))
                    IN  FactoryResult(got.configs,
                            Reaction_wheel(timestamp(actu.pollingTime), actu.position,
                                           min, max, actu.momentOfInertia),
                            "returned")
               [] OTHER -> FactoryResult(got.configs, NULL, "returned")

\* SensorActuatorFactory::GetActuator.  A spec tagged ReactionWheel is a
\* ReactionWheelConfig, so the dynamic_cast succeeds.
GetActuator(configs, name) ==
    LET got == GetActuatorConfig(configs, name)
        actu == got.ref
    IN  IF actu = NULL
        THEN FactoryResult(got.configs, NULL, "returned")
        ELSE CASE actu.type = "ReactionWheel" ->
                    LET min == actuator_state(actu.minAngAccel, actu.minAngVel,
                                              MinPositionSentinel, timestamp(0))
                        max == actuator_state(actu.maxAngAccel, actu.maxAngVel,
                                              MaxPositionSentinel, timestamp(MaxTimeHorizon))
                    IN  FactoryResult(got.configs,
                            Reaction_wheel(timestamp(actu.pollingTime), actu.position,
                                           min, max, actu.momentOfInertia),
                            "returned")
               \* no case matches: the switch falls through, ret stays empty
               [] OTHER -> FactoryResult(got.configs, NULL, "returned")

-----------------------------------------------------------------------------
(* Configuration contents                                                  *)

\* <<min, max>> pairs a configuration document gives for a reaction wheel.
VelocityBounds == {<<0, 4>>, <<-3, 3>>}
AccelBounds == {<<0, 2>>, <<1, 2>>, <<-2, 2>>}

SensorConfigSet ==
    {SensorConfig(t, p, pos) : t \in SensorType, p \in PollingTimes, pos \in Positions}

ReactionWheelConfigSet ==
    {ReactionWheelConfig("ReactionWheel", 1, vb[2], ab[2], vb[1], ab[1], p, <<0, 0, 0>>) :
        vb \in VelocityBounds, ab \in AccelBounds, p \in PollingTimes}

\* An actuator of a type the factory has no case for is a plain ActuatorConfig.
ActuatorConfigSet == ReactionWheelConfigSet \cup {[type |-> "UnknownActuator"]}

\* The maps Configuration::Load can leave behind: every key holds a spec.
MapsOver(names, values) == UNION {[S -> values] : S \in SUBSET names}

\* Scalars of simulator.yaml.
DefaultSettings ==
    [timestepInMilliSeconds |-> 1, timeoutInMilliseconds |-> 10,
     useVariableTimestep |-> FALSE, timeStepMax |-> 50, timeStepMin |-> 1]

IdleWheel == [created |-> FALSE]
IdleStep == [done |-> FALSE]
IdleTick == [ticked |-> FALSE]
EmptyMap == [n \in {} |-> NULL]

WheelIdle == wheel = IdleWheel /\ lastStep = IdleStep
SchedIdle ==
    /\ schedState = "Idle"
    /\ currentTime = 0
    /\ runStartTime = 0
    /\ devices = EmptyMap
    /\ polls = EmptyMap
    /\ lastTick = IdleTick

-----------------------------------------------------------------------------
(* Factory calls against a loaded configuration                            *)

AllNames == SensorNames \cup ActuatorNames

HasSpec(configs, name) == name \in DOMAIN configs /\ configs[name] # NULL

InitFactory ==
    /\ sensorConfigs \in MapsOver(SensorNames, SensorConfigSet)
    /\ actuatorConfigs \in MapsOver(ActuatorNames, ActuatorConfigSet)
    /\ settings = DefaultSettings
    /\ call = NoCall
    /\ WheelIdle
    /\ SchedIdle

\* A caller invokes SensorActuatorFactory::GetSensor(name).
CallGetSensor ==
    /\ call.outcome # "fatal"
    /\ \E name \in AllNames :
        LET r == GetSensor(sensorConfigs, name)
        IN  /\ sensorConfigs' = r.configs
            /\ call' = [op |-> "GetSensor", name |-> name, ret |-> r.ret,
                        outcome |-> r.outcome,
                        hadEntry |-> name \in DOMAIN sensorConfigs,
                        spec |-> IF HasSpec(sensorConfigs, name)
                                 THEN sensorConfigs[name] ELSE NULL]
    /\ UNCHANGED <<actuatorConfigs, settings, wheelVars, schedVars>>

\* A caller invokes SensorActuatorFactory::GetActuator(name).
CallGetActuator ==
    /\ call.outcome # "fatal"
    /\ \E name \in AllNames :
        LET r == GetActuator(actuatorConfigs, name)
        IN  /\ actuatorConfigs' = r.configs
            /\ call' = [op |-> "GetActuator", name |-> name, ret |-> r.ret,
                        outcome |-> r.outcome,
                        hadEntry |-> name \in DOMAIN actuatorConfigs,
                        spec |-> IF HasSpec(actuatorConfigs, name)
                                 THEN actuatorConfigs[name] ELSE NULL]
    /\ UNCHANGED <<sensorConfigs, settings, wheelVars, schedVars>>

NextFactory == CallGetSensor \/ CallGetActuator

SpecFactory == InitFactory /\ [][NextFactory]_vars

Called == call.op # "none"

\* C1: a factory call for a name with no spec registered returns the empty
\* pointer and does not end fatally, whatever calls came before (also when
\* the same absent name was looked up earlier).
C1_AbsentNameReturnsEmpty ==
    (Called /\ call.spec = NULL) => (call.ret = NULL /\ call.outcome = "returned")

\* C1 witness: a repeated GetSensor lookup of a name that has no spec.
C1_Witness ==
    /\ Called
    /\ call.op = "GetSensor"
    /\ call.spec = NULL
    /\ call.hadEntry
    /\ call.ret = NULL

\* C2 (as stated): no factory call changes the sensor or actuator spec map.
C2_StoreUnchanged ==
    [][sensorConfigs' = sensorConfigs /\ actuatorConfigs' = actuatorConfigs]_vars

\* C9 (as stated): a call on a registered spec whose type tag matches no
\* dispatch arm ends fatally.
C9_UnknownTagIsFatal ==
    (Called /\ call.spec # NULL
        /\ call.spec.type \in {"UnknownSensor", "UnknownActuator"})
    => call.outcome = "fatal"

\* C10: for a registered Gyroscope / Accelerometer / ReactionWheel spec the
\* factory returns the device of that kind with the spec's polling interval
\* and position; a Reaction Wheel's bounds are min = (minAngAccel, minAngVel,
\* position sentinel, time 0), max = (maxAngAccel, maxAngVel, position
\* sentinel, time horizon), with min.position < max.position and
\* min.time < max.time.
C10_DeviceMatchesSpec ==
    (Called /\ call.spec # NULL) =>
        LET s == call.spec
            d == call.ret
        IN  /\ s.type = "Gyroscope" =>
                /\ d # NULL
                /\ d.kind = "Gyroscope"
                /\ d.pollingTime = timestamp(s.pollingTime)
                /\ d.position = s.position
            /\ s.type = "Accelerometer" =>
                /\ d # NULL
                /\ d.kind = "Accelerometer"
                /\ d.pollingTime = timestamp(s.pollingTime)
                /\ d.position = s.position
            /\ s.type = "ReactionWheel" =>
                /\ d # NULL
                /\ d.kind = "Reaction_wheel"
                /\ d.pollingTime = timestamp(s.pollingTime)
                /\ d.position = s.position
                /\ d.min = actuator_state(s.minAngAccel, s.minAngVel,
                                          MinPositionSentinel, timestamp(0))
                /\ d.max = actuator_state(s.maxAngAccel, s.maxAngVel,
                                          MaxPositionSentinel, timestamp(MaxTimeHorizon))
                /\ d.min.position < d.max.position
                /\ d.min.time.ms < d.max.time.ms

\* C10 witness: a Reaction Wheel was built from a spec whose velocity and
\* acceleration bounds differ.
C10_Witness ==
    /\ Called
    /\ call.op = "GetActuator"
    /\ call.spec # NULL
    /\ call.spec.type = "ReactionWheel"
    /\ call.spec.minAngVel # call.spec.minAngAccel
    /\ call.ret # NULL
    /\ call.ret.kind = "Reaction_wheel"

-----------------------------------------------------------------------------
(* Actuator integration (design section 4.2)                               *)

MaxDt == 2            \* largest elapsed time of one integrate call
MaxWheelTime == 5     \* integrate calls are made up to this time
MaxCommand == 5       \* largest commanded input

Commands == {-MaxCommand, 0, 1, MaxCommand}

\* An acceleration is a ratio num/den: the realized acceleration of a step
\* whose velocity was clamped is (velocity change) / (elapsed time).
Ratio(num, den) == [num |-> num, den |-> den]

\* lo <= q <= hi for a ratio q; a ratio with den = 0 is in no range.
RatioInRange(q, lo, hi) ==
    /\ q.den > 0
    /\ lo * q.den <= q.num
    /\ q.num <= hi * q.den

Clamp(x, lo, hi) == IF x < lo THEN lo ELSE IF x > hi THEN hi ELSE x

\* The ActuatorState a Reaction_wheel starts from: at rest at min.time, the
\* initial time of its horizon (the factory hands the constructor no initial
\* velocity or acceleration).
InitialState(dev) == actuator_state(Ratio(0, 1), 0, 0, dev.min.time.ms)

\* Actuator::integrate(at, commanded input), steps 1 to 5.
integrate(dev, state, at, command) ==
    LET dt == at - state.time
        \* 2. candidate acceleration, clamped to the acceleration bounds
        aCand == Clamp(command, dev.min.acceleration, dev.max.acceleration)
        \* 3. velocity, clamped to the velocity bounds; a clamped step realizes
        \*    the acceleration that the clamped velocity change amounts to
        vCand == state.velocity + aCand * dt
        v == Clamp(vCand, dev.min.velocity, dev.max.velocity)
        a == IF v = vCand THEN Ratio(aCand, 1) ELSE Ratio(v - state.velocity, dt)
        \* 4. position
        p == Clamp(state.position + v * dt, dev.min.position, dev.max.position)
    IN  \* 1. negative elapsed time is fatal
        IF dt < 0
        THEN [failed |-> TRUE, state |-> state, clamped |-> FALSE]
        \* 5. store the new state with time = at
        ELSE [failed |-> FALSE, state |-> actuator_state(a, v, p, at),
              clamped |-> v # vCand]

InitWheel ==
    /\ sensorConfigs = EmptyMap
    /\ actuatorConfigs \in [{"ReactionWheel1"} -> ReactionWheelConfigSet]
    /\ settings = DefaultSettings
    /\ call = NoCall
    /\ WheelIdle
    /\ SchedIdle

\* The reaction wheel is obtained from the factory.
CreateWheel ==
    /\ ~wheel.created
    /\ LET r == GetActuator(actuatorConfigs, "ReactionWheel1")
       IN  /\ r.ret # NULL
           /\ actuatorConfigs' = r.configs
           /\ wheel' = [created |-> TRUE, failed |-> FALSE, dev |-> r.ret,
                        state |-> InitialState(r.ret)]
    /\ UNCHANGED <<sensorConfigs, settings, call, lastStep, schedVars>>

\* One integrate call on the wheel, with any commanded input and any time
\* (earlier than the stored time included).
IntegrateWheel ==
    /\ wheel.created
    /\ ~wheel.failed
    /\ \E at \in 0..MaxWheelTime, command \in Commands :
        /\ at >= wheel.state.time - 1
        /\ at <= wheel.state.time + MaxDt
        /\ LET r == integrate(wheel.dev, wheel.state, at, command)
           IN  /\ wheel' = [wheel EXCEPT !.state = r.state, !.failed = r.failed]
               /\ lastStep' = [done |-> TRUE, failed |-> r.failed,
                               clamped |-> r.clamped,
                               dt |-> at - wheel.state.time,
                               command |-> command,
                               before |-> wheel.state]
    /\ UNCHANGED <<sensorConfigs, actuatorConfigs, settings, call, schedVars>>

NextWheel == CreateWheel \/ IntegrateWheel

SpecWheel == InitWheel /\ [][NextWheel]_vars

\* The wheel's configured spec.
WheelSpec == actuatorConfigs["ReactionWheel1"]

Stepped == lastStep.done /\ ~lastStep.failed

VelocityInBounds(v) == WheelSpec.minAngVel <= v /\ v <= WheelSpec.maxAngVel

AccelInBounds(a) == RatioInRange(a, WheelSpec.minAngAccel, WheelSpec.maxAngAccel)

\* C3 (as stated): after every integration step the stored velocity is
\* within the spec's velocity bounds and the stored acceleration within its
\* acceleration bounds.
C3_ClampingInvariant ==
    Stepped => (VelocityInBounds(wheel.state.velocity)
                /\ AccelInBounds(wheel.state.acceleration))

\* The commanded input of the last step, clamped to the spec's acceleration
\* bounds.
ClampedCommand == Clamp(lastStep.command, WheelSpec.minAngAccel, WheelSpec.maxAngAccel)

\* q lies between 0 and x (x of either sign).
RatioBetweenZeroAnd(q, x) ==
    IF x >= 0 THEN RatioInRange(q, 0, x) ELSE RatioInRange(q, x, 0)

\* What the integration step does guarantee: the velocity is within the
\* velocity bounds; on a step whose velocity was not clamped the acceleration
\* is within the acceleration bounds; on a step whose velocity was clamped
\* the realized acceleration lies between 0 and the clamped commanded
\* acceleration, hence within the acceleration bounds when they contain 0.
ClampingGuarantee ==
    Stepped =>
        /\ VelocityInBounds(wheel.state.velocity)
        /\ ~lastStep.clamped => AccelInBounds(wheel.state.acceleration)
        /\ lastStep.clamped =>
              RatioBetweenZeroAnd(wheel.state.acceleration, ClampedCommand)
        /\ (/\ lastStep.clamped
            /\ WheelSpec.minAngAccel <= 0
            /\ 0 <= WheelSpec.maxAngAccel)
           => AccelInBounds(wheel.state.acceleration)

\* A step whose velocity clamp reduced the realized acceleration below the
\* commanded one, with the wheel held at its maximum velocity.
SaturatedStep ==
    /\ Stepped
    /\ lastStep.clamped
    /\ lastStep.dt > 0
    /\ lastStep.command = MaxCommand
    /\ WheelSpec.minAngAccel <= 0
    /\ wheel.state.velocity = WheelSpec.maxAngVel
    /\ wheel.state.acceleration.num < WheelSpec.maxAngAccel * wheel.state.acceleration.den

-----------------------------------------------------------------------------
(* Configuration scalars                                                   *)

\* Mutant: the fixed timestep getter returns the adaptive maximum.
GetTimestepInMilliSeconds_Max(s) == s.timeStepMax

\* Configuration::GetTimestepInMilliSeconds
GetTimestepInMilliSeconds(s) == s.timestepInMilliSeconds

\* Configuration::GetTimestepDecision
GetTimestepDecision(s) == s.useVariableTimestep

\* Mutant: the maximum-step getter returns the fixed timestep.
GetMaxTimestep_Fixed(s) == s.timestepInMilliSeconds

\* Configuration::GetMaxTimestep
GetMaxTimestep(s) == s.timeStepMax

\* Configuration::GetMinTimestep
GetMinTimestep(s) == s.timeStepMin

\* Mutant: the timeout getter returns the timestep.
getTimeout_Timestep(s) == s.timestepInMilliSeconds

\* Configuration::getTimeout
getTimeout(s) == s.timeoutInMilliseconds

-----------------------------------------------------------------------------
(* Simulation clock / scheduler (design section 4.3)                       *)

MaxTimeout == 30      \* longest run

Timeouts == {0, 10, MaxTimeout}
SchedPollingTimes == {1, 4, 10}
SchedCommands == {0, MaxCommand}

\* Device names and the type each is configured with in a scheduled run.
SchedSensorType(name) == IF name = "Gyro1" THEN "Gyroscope" ELSE "Accelerometer"

SchedSensorMaps ==
    {m \in MapsOver(SensorNames,
                    {SensorConfig(t, p, <<0, 0, 0>>) :
                        t \in {"Gyroscope", "Accelerometer"}, p \in SchedPollingTimes}) :
        \A n \in DOMAIN m : m[n].type = SchedSensorType(n)}

SchedActuatorMaps ==
    MapsOver(ActuatorNames,
             {ReactionWheelConfig("ReactionWheel", 1, 4, 2, 0, 0, 10, <<0, 0, 0>>)})

SchedSettings ==
    {[timestepInMilliSeconds |-> ts, timeoutInMilliseconds |-> to,
      useVariableTimestep |-> v, timeStepMax |-> mm[2], timeStepMin |-> mm[1]] :
        ts \in {1, 3}, to \in Timeouts, v \in BOOLEAN, mm \in {<<1, 2>>, <<2, 4>>}}

SetMin(S) == CHOOSE x \in S : \A y \in S : x <= y

\* The step sizes the clock may choose: the configured constant in Fixed
\* mode, any value within [stepMin, stepMax] in Adaptive mode.
StepSizes(s) ==
    IF GetTimestepDecision(s)
    THEN GetMinTimestep(s)..GetMaxTimestep(s)
    ELSE {GetTimestepInMilliSeconds(s)}

\* A device's next poll deadline.
Deadline(e) == e.lastPollTime + e.dev.pollingTime.ms

\* A device's time field: the time of its ActuatorState, or of its last reading.
DeviceTime(e) == e.state.time

\* A device enters the run unpolled.
Scheduled(dev, now) ==
    [dev |-> dev, lastPollTime |-> now,
     state |-> IF dev.kind = "Reaction_wheel" THEN InitialState(dev) ELSE [time |-> now]]

\* Polling a device at time `at`: a sensor is sampled, an actuator integrates
\* the commanded input.
Poll(e, at, command) ==
    IF e.dev.kind = "Reaction_wheel"
    THEN [e EXCEPT !.lastPollTime = at,
                   !.state = integrate(e.dev, e.state, at, command).state]
    ELSE [e EXCEPT !.lastPollTime = at, !.state = [time |-> at]]

InitSched ==
    /\ sensorConfigs \in SchedSensorMaps
    /\ actuatorConfigs \in SchedActuatorMaps
    /\ settings \in SchedSettings
    /\ call = NoCall
    /\ WheelIdle
    /\ SchedIdle

\* The devices the factory builds for the configured names (every name is a
\* key of its map, so the lookups leave the maps as they are).
BuiltDevices ==
    [n \in DOMAIN GetSensorConfigs \cup DOMAIN GetActuatorConfigs |->
        IF n \in DOMAIN GetSensorConfigs
        THEN GetSensor(sensorConfigs, n).ret
        ELSE GetActuator(actuatorConfigs, n).ret]

\* Idle -> Running.
Start ==
    /\ schedState = "Idle"
    /\ schedState' = "Running"
    /\ runStartTime' = currentTime
    /\ LET built == BuiltDevices
           names == {n \in DOMAIN built : built[n] # NULL}
       IN  /\ devices' = [n \in names |-> Scheduled(built[n], currentTime)]
           /\ polls' = [n \in names |-> {}]
    /\ UNCHANGED <<sensorConfigs, actuatorConfigs, settings, call, wheelVars,
                   currentTime, lastTick>>

\* One tick in Running: advance to the next event time and poll every device
\* whose deadline was reached.
Tick ==
    /\ schedState = "Running"
    /\ currentTime - runStartTime < getTimeout(settings)
    /\ \E stepSize \in StepSizes(settings), command \in SchedCommands :
        LET deadlines == {Deadline(devices[n]) : n \in DOMAIN devices}
            next == SetMin({currentTime + stepSize} \cup deadlines)
            due == {n \in DOMAIN devices :
                        next - devices[n].lastPollTime >= devices[n].dev.pollingTime.ms}
        IN  /\ currentTime' = next
            /\ devices' = [n \in DOMAIN devices |->
                              IF n \in due THEN Poll(devices[n], next, command)
                              ELSE devices[n]]
            /\ polls' = [n \in DOMAIN polls |->
                              IF n \in due THEN polls[n] \cup {next} ELSE polls[n]]
            /\ lastTick' = [ticked |-> TRUE, from |-> currentTime,
                            deadlines |-> deadlines, polled |-> due]
    /\ UNCHANGED <<sensorConfigs, actuatorConfigs, settings, call, wheelVars,
                   schedState, runStartTime>>

\* Running -> TimedOut.
TimeOut ==
    /\ schedState = "Running"
    /\ currentTime - runStartTime >= getTimeout(settings)
    /\ schedState' = "TimedOut"
    /\ UNCHANGED <<sensorConfigs, actuatorConfigs, settings, call, wheelVars,
                   currentTime, runStartTime, devices, polls, lastTick>>

\* Running -> Stopped, on external cancellation.
Stop ==
    /\ schedState = "Running"
    /\ schedState' = "Stopped"
    /\ UNCHANGED <<sensorConfigs, actuatorConfigs, settings, call, wheelVars,
                   currentTime, runStartTime, devices, polls, lastTick>>

NextSched == Start \/ Tick \/ TimeOut \/ Stop

SpecSched == InitSched /\ [][NextSched]_vars

-----------------------------------------------------------------------------
(* Scheduler properties                                                    *)

\* The polling interval the configuration gives a device.
ConfiguredPolling(n) ==
    IF n \in DOMAIN sensorConfigs
    THEN sensorConfigs[n].pollingTime
    ELSE actuatorConfigs[n].pollingTime

FixedMode == ~settings.useVariableTimestep

Ticked == lastTick.ticked

\* How far the last tick advanced the clock.
Advance == currentTime - lastTick.from

\* End-to-end scenario 1: one Gyroscope polled every 10 ms, fixed 1 ms step.
ScenarioOneGyro ==
    /\ DOMAIN sensorConfigs = {"Gyro1"}
    /\ DOMAIN actuatorConfigs = {}
    /\ sensorConfigs["Gyro1"].pollingTime = 10
    /\ FixedMode
    /\ settings.timestepInMilliSeconds = 1

\* C4: a device is polled only when at least its polling interval has passed
\* since its last poll (or since the run started), so two polls of a device
\* are never closer than that interval; one Gyroscope with PollingTime 10
\* under a fixed 1 ms step is sampled exactly at the multiples of 10 ms.
C4_PollSpacing ==
    /\ \A n \in DOMAIN polls :
          \A t \in polls[n] :
              /\ t - runStartTime >= ConfiguredPolling(n)
              /\ \A u \in polls[n] : u > t => u - t >= ConfiguredPolling(n)
    /\ (ScenarioOneGyro /\ schedState # "Idle") =>
          polls["Gyro1"] = {t \in 1..currentTime : t % 10 = 0}

\* C4 witness: the scenario's gyroscope has been sampled at 10, 20 and 30 ms.
C4_Witness ==
    /\ ScenarioOneGyro
    /\ schedState # "Idle"
    /\ polls["Gyro1"] = {10, 20, 30}

Elapsed == currentTime - runStartTime

\* C5: the run is TimedOut only with the timeout elapsed; no tick is taken
\* once the timeout has elapsed, so the transition happens at the first tick
\* that reaches it (at 10 ms for Timeout 10 and a fixed 1 ms step); TimedOut
\* is terminal: the clock and the emitted events no longer change.
C5_Timeout ==
    /\ [](/\ schedState = "TimedOut" => Elapsed >= settings.timeoutInMilliseconds
          /\ Ticked => lastTick.from - runStartTime < settings.timeoutInMilliseconds
          /\ (/\ schedState = "TimedOut"
              /\ settings.timeoutInMilliseconds = 10
              /\ FixedMode
              /\ settings.timestepInMilliSeconds = 1) => currentTime = 10)
    /\ [][(schedState = "Running" /\ Elapsed >= settings.timeoutInMilliseconds)
            => (/\ schedState' \in {"TimedOut", "Stopped"}
                /\ currentTime' = currentTime
                /\ polls' = polls)]_vars
    /\ [][schedState = "TimedOut"
            => (/\ schedState' = "TimedOut"
                /\ currentTime' = currentTime
                /\ polls' = polls)]_vars

\* C5 witness: Timeout 10 with a fixed 1 ms step has timed out at 10 ms
\* after ticking.
C5_Witness ==
    /\ schedState = "TimedOut"
    /\ settings.timeoutInMilliseconds = 10
    /\ FixedMode
    /\ settings.timestepInMilliSeconds = 1
    /\ Ticked
    /\ currentTime = 10

\* C6 (as stated): in Fixed mode every tick advances the clock by exactly the
\* configured timestep.
C6_FixedStepExact ==
    (FixedMode /\ Ticked) => Advance = settings.timestepInMilliSeconds

\* What the tick rule does guarantee in Fixed mode: every tick advances the
\* clock by at most the configured timestep, and by less only to land exactly
\* on a device's poll deadline.
FixedStepGuarantee ==
    (FixedMode /\ Ticked) =>
        \/ Advance = settings.timestepInMilliSeconds
        \/ /\ Advance < settings.timestepInMilliSeconds
           /\ Advance > 0
           /\ currentTime \in lastTick.deadlines

\* A Fixed-mode tick cut short by a device deadline.
FixedStepCutShort ==
    /\ FixedMode
    /\ Ticked
    /\ Advance < settings.timestepInMilliSeconds
    /\ currentTime \in lastTick.deadlines

\* C7: every device's time never exceeds the clock's current time and never
\* decreases from one state to the next.
C7_DeviceTime ==
    /\ [](\A n \in DOMAIN devices : DeviceTime(devices[n]) <= currentTime)
    /\ [][\A n \in DOMAIN devices \cap DOMAIN devices' :
              DeviceTime(devices'[n]) >= DeviceTime(devices[n])]_vars

\* C7 witness: a device has been polled and the clock has since moved on.
C7_Witness ==
    \E n \in DOMAIN devices :
        /\ polls[n] # {}
        /\ DeviceTime(devices[n]) > 0
        /\ DeviceTime(devices[n]) < currentTime

\* C8: in Adaptive mode a tick never advances the clock by more than
\* TimeStepMax, and by less than TimeStepMin only when it lands exactly on a
\* device's poll deadline.
C8_AdaptiveStep ==
    (~FixedMode /\ Ticked) =>
        /\ Advance <= settings.timeStepMax
        /\ \/ Advance >= settings.timeStepMin
           \/ currentTime \in lastTick.deadlines

\* C8 witness: an Adaptive-mode tick shorter than TimeStepMin that lands on a
\* device deadline.
C8_Witness ==
    /\ ~FixedMode
    /\ Ticked
    /\ Advance < settings.timeStepMin
    /\ currentTime \in lastTick.deadlines

=============================================================================
